---- MODULE Spec2Model ----
(***************************************************************************)
(* Model of ai-search.js: a command-line pipeline that runs a Google       *)
(* Custom Search, fetches the paragraph text of every result page with     *)
(* cheerio or puppeteer, and asks OpenAI or Gemini for a synthesized       *)
(* answer.                                                                 *)
(*                                                                         *)
(* One run of the script is one behaviour.  pc is the await at which the   *)
(* script is suspended; every action is the completion of that await       *)
(* together with all synchronous code up to the next await.                *)
(*                                                                         *)
(* A JavaScript string is modelled by what length, trim() and slice() can  *)
(* observe of it: its identity, the number of leading whitespace           *)
(* characters, the length of the part between the first and the last       *)
(* non-whitespace character, and the number of trailing whitespace         *)
(* characters.                                                             *)
(***************************************************************************)
EXTENDS Integers, Sequences, FiniteSets

VARIABLES
  pc,            \* position of the script
  query,         \* args._.join(" ")
  fetchLibrary,  \* args['fetch-library']
  numResults,    \* args['num-results']
  model,         \* args['model']
  searchResults, \* main: const searchResults
  idx,           \* main: position of the for..of iterator (1-based)
  contents,      \* main: const contents
  summary,       \* main: let summary (a sequence of at most one string)
  browser,       \* fetchPageContentWithPuppeteer: let browser (0 = undefined)
  content,       \* fetchPageContentWithPuppeteer: const content (at most one string)
  pending,       \* fetchPageContentWithPuppeteer: the return of try/catch, held while finally runs
  alive,         \* browser processes that are running
  searchResponse,\* the response the search backend gave (at most one)
  searchCalls,   \* number of search requests issued
  fetchCalls,    \* number of fetch invocations started
  fetchLog,      \* one entry per fetch invocation that returned
  lastFetch,     \* the page the last returned fetch invocation loaded
  synthLog,      \* one entry per synthesis request issued
  lastResponse   \* the response the synthesis backend gave

vars == <<pc, query, fetchLibrary, numResults, model, searchResults, idx,
          contents, summary, browser, content, pending, alive, searchResponse,
          searchCalls, fetchLog, lastFetch, synthLog, fetchCalls, lastResponse>>

----------------------------------------------------------------------------
(* Bounds *)

\* longest item list the search backend answers with
MaxItems == 3

\* largest --num-results
MaxLimit == 3

----------------------------------------------------------------------------
(* Strings *)

Min(a, b) == IF a < b THEN a ELSE b

Str(id, lead, core, trail) ==
  [id |-> id, lead |-> lead, core |-> core, trail |-> trail]

\* s.length
StrLen(s) == s.lead + s.core + s.trail

\* s.trim()
Trim(s) == [s EXCEPT !.lead = 0, !.trail = 0]

\* s.slice(0, n)
Slice(s, n) ==
  LET l == Min(s.lead, n)
      c == Min(s.core, n - l)
      t == Min(s.trail, n - l - c)
  IN  [s EXCEPT !.lead = l, !.core = c, !.trail = t]

\* JavaScript truthiness of a string
Truthy(s) == StrLen(s) > 0

NoMeaningfulContent == Str("No meaningful content found.", 0, 28, 0)
ErrorFetching       == Str("Error fetching content.", 0, 23, 0)
ErrorGenerating     == Str("Error generating summary.", 0, 25, 0)

\* content.trim().length > MinContentLength
MinContentLength == 100

\* content.slice(0, MaxContentLength)
MaxContentLength == 2000

----------------------------------------------------------------------------
(* The outside world *)

Undefined == "undefined"

\* values of args['model'] that are not strings: minimist turns `--model 4`
\* into the number 4 and a bare `--model` into true
NotAString == {"<number 4>"}

\* values of args['model']
Models == {"openai", "gemini", "other"} \cup NotAString

Links == {"u1", "u2"}

\* an item of the search backend's answer; item.link may be missing
Items == [title : {"t"}, link : Links \cup {Undefined}, snippet : {"s"}]

SeqsUpTo(S, n) == UNION {[1..k -> S] : k \in 0..n}

\* outcome of axios.get(searchUrl): the request throws, or the response
\* resolves `depth` segments of the path response.data.items
SearchResponses ==
  [throws : {TRUE}, depth : {0}, items : {<<>>}]
    \cup [throws : {FALSE}, depth : {0, 1}, items : {<<>>}]
    \cup [throws : {FALSE}, depth : {2}, items : SeqsUpTo(Items, MaxItems)]

\* paragraph text of a page: (leading blanks, core, trailing blanks)
PageShapes ==
  { <<0, 50, 0>>, <<30, 80, 30>>, <<0, 100, 0>>, <<0, 101, 0>>,
    <<0, 5000, 0>>, <<30, 5000, 0>>, <<0, 1990, 30>> }

PageText(url) == {Str(url, sh[1], sh[2], sh[3]) : sh \in PageShapes}

\* text of a completion
CompletionTexts ==
  { Str("completion", 0, 0, 0), Str("completion", 3, 0, 0),
    Str("completion", 1, 40, 1) }

\* outcome of axios.post(endpoint): the request throws (transport error or
\* error status), or the response resolves `depth` segments of the path the
\* provider's function reads
PostResponses(maxDepth) ==
  [throws : {TRUE}, depth : {0}, text : {Str("completion", 0, 0, 0)}]
    \cup [throws : {FALSE}, depth : 0..(maxDepth - 1),
          text : {Str("completion", 0, 0, 0)}]
    \cup [throws : {FALSE}, depth : {maxDepth}, text : CompletionTexts]

----------------------------------------------------------------------------
(* Initial state: the command line has been parsed *)

Init ==
  /\ pc = "Start"
  /\ query \in {"", "q"}
  /\ fetchLibrary \in {"cheerio", "puppeteer", "other"}
  /\ numResults \in 0..MaxLimit
  /\ model \in Models
  /\ searchResults = <<>>
  /\ idx = 1
  /\ contents = <<>>
  /\ summary = <<>>
  /\ browser = 0
  /\ content = <<>>
  /\ pending = <<>>
  /\ alive = {}
  /\ searchResponse = <<>>
  /\ searchCalls = 0
  /\ fetchCalls = 0
  /\ fetchLog = <<>>
  /\ lastFetch = <<>>
  /\ synthLog = <<>>
  /\ lastResponse = <<>>

----------------------------------------------------------------------------
(* Pure parts of the stage functions *)

\* SliceItems cutting one item too late
SliceItemsOffByOne(items, n) == SubSeq(items, 1, Min(n + 1, Len(items)))

\* items.slice(0, numResults).map(item => ({title, link}))
SliceItems(items, n) == SubSeq(items, 1, Min(n, Len(items)))

ToLocator(item) == [title |-> item.title, link |-> item.link]

\* value googleSearch resolves to for a response
googleSearchResult(r) ==
  IF r.throws \/ r.depth = 0
  THEN <<>>                                       \* catch: return []
  ELSE LET items == IF r.depth = 2 THEN r.items ELSE <<>>   \* data.items || []
           top   == SliceItems(items, numResults)
       IN  [i \in 1..Len(top) |-> ToLocator(top[i])]

\* PuppeteerExcerpt accepting a text of exactly MinContentLength characters
PuppeteerExcerptInclusive(c) ==
  IF StrLen(Trim(c)) >= MinContentLength
  THEN Slice(c, MaxContentLength)
  ELSE NoMeaningfulContent

\* fetchPageContentWithPuppeteer: value returned for the extracted text
PuppeteerExcerpt(c) ==
  IF StrLen(Trim(c)) > MinContentLength
  THEN Slice(c, MaxContentLength)
  ELSE NoMeaningfulContent

\* CheerioExcerpt without the slice
CheerioExcerptUncut(c) ==
  IF StrLen(Trim(c)) > MinContentLength
  THEN c
  ELSE NoMeaningfulContent

\* fetchPageContentWithCheerio: value returned for the extracted text
CheerioExcerpt(c) ==
  IF StrLen(Trim(c)) > MinContentLength
  THEN Slice(c, MaxContentLength)
  ELSE NoMeaningfulContent

\* number of segments of response.data.choices[0].message.content
OpenAIPath == 5

\* number of segments of response.data.candidates[0].content.parts[0].text
GeminiPath == 7

\* response.data.choices[0].message.content.trim() raises a TypeError as
\* soon as one segment of the path is undefined
OpenAIThrows(r) == r.throws \/ r.depth < OpenAIPath

\* value summarizeWithOpenAI resolves to for a response
summarizeWithOpenAIResult(r) ==
  IF OpenAIThrows(r) THEN ErrorGenerating ELSE Trim(r.text)

\* response.data.candidates[0]?.content?.parts[0]?.text.trim(): the plain
\* accesses .candidates, [0] (twice) and .trim() raise a TypeError on
\* undefined; the three ?. give undefined instead
GeminiThrows(r) == r.throws \/ r.depth \in {0, 1, 4, 6}

GeminiShortCircuits(r) == r.depth \in {2, 3, 5}

\* summarizeWithGeminiResult without the `|| 'Error generating summary.'`
summarizeWithGeminiNoFallback(r) ==
  IF GeminiThrows(r) THEN ErrorGenerating
  ELSE IF GeminiShortCircuits(r) THEN Str(Undefined, 0, 0, 0)
  ELSE Trim(r.text)

\* value summarizeWithGemini resolves to for a response
summarizeWithGeminiResult(r) ==
  IF GeminiThrows(r) THEN ErrorGenerating
  ELSE IF GeminiShortCircuits(r) THEN ErrorGenerating   \* undefined || '...'
  ELSE IF Truthy(Trim(r.text)) THEN Trim(r.text)
  ELSE ErrorGenerating                                  \* '' || '...'

----------------------------------------------------------------------------
(* main *)

Terminal ==
  {"Exit1", "NoResults", "InvalidLibrary", "Rejected", "ModelTypeError",
   "Done"}

Provider == IF model = "gemini" THEN "Gemini" ELSE "OpenAI"

\* a text that names the query, with or without the sentence
\* `if there is nothing useful to say, simply say "No results."`
QueryText(q, sayNoResults) == [text |-> q, sayNoResults |-> sayNoResults]

\* main: const instructions (computed, passed to no function)
instructions == QueryText(query, TRUE)

\* contents.join(sep)
Join(cts, sep) == [parts |-> cts, sep |-> sep]

\* summarizeWithOpenAI: the body of the request for arguments (q, cts)
OpenAIRequest(q, cts) ==
  [system |-> "generates a new, comprehensive response",
   user |-> [lead |-> "Generate new content that answers the query",
             query |-> q,
             sources |-> Join(cts, "\n\n")],
   max_tokens |-> 250]

\* summarizeWithGemini: the body of the request for arguments (q, cts)
GeminiRequest(q, cts) ==
  [system |-> "",
   user |-> [lead |-> "Generate new content to answer the query",
             query |-> q,
             sources |-> Join(cts, "\n\n")],
   max_tokens |-> 0]

\* ForLoop that starts the fetches of all locators at once
ForLoopFanOut(results, i, cts) ==
  /\ idx' = i
  /\ IF i <= Len(results)
     THEN /\ pc' = CASE fetchLibrary = "puppeteer" -> "Launch"
                     [] fetchLibrary = "cheerio"   -> "CheerioGet"
                     [] OTHER                      -> "InvalidLibrary"
          /\ fetchCalls' = IF fetchLibrary \in {"puppeteer", "cheerio"}
                           THEN Len(results) ELSE fetchCalls
          /\ synthLog' = synthLog
     ELSE IF model \in NotAString
     THEN /\ pc' = "ModelTypeError"
          /\ fetchCalls' = fetchCalls
          /\ synthLog' = synthLog
     ELSE /\ pc' = Provider
          /\ fetchCalls' = fetchCalls
          /\ synthLog' = Append(synthLog,
                [provider |-> Provider, query |-> query, contents |-> cts,
                 request |-> IF model = "gemini"
                             THEN GeminiRequest(QueryText(query, FALSE), cts)
                             ELSE OpenAIRequest(QueryText(query, FALSE), cts)])

\* ForLoop that falls back to cheerio for an unknown fetch library
ForLoopLenientLibrary(results, i, cts) ==
  /\ idx' = i
  /\ IF i <= Len(results)
     THEN /\ pc' = IF fetchLibrary = "puppeteer" THEN "Launch" ELSE "CheerioGet"
          /\ fetchCalls' = fetchCalls + 1
          /\ synthLog' = synthLog
     ELSE IF model \in NotAString
     THEN /\ pc' = "ModelTypeError"
          /\ fetchCalls' = fetchCalls
          /\ synthLog' = synthLog
     ELSE /\ pc' = Provider
          /\ fetchCalls' = fetchCalls
          /\ synthLog' = Append(synthLog,
                [provider |-> Provider, query |-> query, contents |-> cts,
                 request |-> IF model = "gemini"
                             THEN GeminiRequest(QueryText(query, FALSE), cts)
                             ELSE OpenAIRequest(QueryText(query, FALSE), cts)])

\* main from the head of the for..of loop at position i, with cts the
\* excerpts accumulated so far, up to the next await
ForLoop(results, i, cts) ==
  /\ idx' = i
  /\ IF i <= Len(results)
     THEN /\ pc' = CASE fetchLibrary = "puppeteer" -> "Launch"
                     [] fetchLibrary = "cheerio"   -> "CheerioGet"
                     [] OTHER                      -> "InvalidLibrary"
          /\ fetchCalls' = IF fetchLibrary \in {"puppeteer", "cheerio"}
                           THEN fetchCalls + 1 ELSE fetchCalls
          /\ synthLog' = synthLog
     ELSE IF model \in NotAString
     THEN /\ pc' = "ModelTypeError"       \* model.toUpperCase is not a function
          /\ fetchCalls' = fetchCalls
          /\ synthLog' = synthLog
     ELSE /\ pc' = Provider
          /\ fetchCalls' = fetchCalls
          /\ synthLog' = Append(synthLog,
                [provider |-> Provider, query |-> query, contents |-> cts,
                 request |-> IF model = "gemini"
                             THEN GeminiRequest(QueryText(query, FALSE), cts)
                             ELSE OpenAIRequest(QueryText(query, FALSE), cts)])

\* Return where main pushes only the excerpts of fetches that did not fail
ReturnDropFailed(v, failed, loaded) ==
  /\ contents' = IF failed THEN contents ELSE Append(contents, v)
  /\ fetchLog' = Append(fetchLog,
        [url |-> searchResults[idx].link, failed |-> failed,
         library |-> fetchLibrary])
  /\ lastFetch' = loaded
  /\ ForLoop(searchResults, idx + 1, contents')

\* a fetch function returns value v to main, which pushes it
Return(v, failed, loaded) ==
  /\ contents' = Append(contents, v)
  /\ fetchLog' = Append(fetchLog,
        [url |-> searchResults[idx].link, failed |-> failed,
         library |-> fetchLibrary])
  /\ lastFetch' = loaded
  /\ ForLoop(searchResults, idx + 1, contents')

\* top level of the script: the query check, then main() up to the search
Startup ==
  /\ pc = "Start"
  /\ IF query = ""
     THEN /\ pc' = "Exit1"
          /\ UNCHANGED searchCalls
     ELSE /\ pc' = "Searching"
          /\ searchCalls' = searchCalls + 1
  /\ UNCHANGED <<query, fetchLibrary, numResults, model, searchResults, idx,
                 contents, summary, browser, content, pending, alive, searchResponse,
                 fetchLog, lastFetch, synthLog, fetchCalls, lastResponse>>

\* googleSearch followed by a main that lacks the length check
googleSearchNoEmptyCheck ==
  /\ pc = "Searching"
  /\ \E r \in SearchResponses :
       /\ searchResponse' = <<r>>
       /\ searchResults' = googleSearchResult(r)
       /\ ForLoop(searchResults', 1, <<>>)
  /\ UNCHANGED <<query, fetchLibrary, numResults, model, contents, summary,
                 browser, content, pending, alive, searchCalls, fetchLog,
                 lastFetch, lastResponse>>

\* googleSearch without its try/catch: a failed request rejects main
googleSearchNoCatch ==
  /\ pc = "Searching"
  /\ \E r \in SearchResponses :
       /\ searchResponse' = <<r>>
       /\ IF r.throws \/ r.depth = 0
          THEN /\ pc' = "Rejected"
               /\ UNCHANGED <<searchResults, idx, synthLog, fetchCalls>>
          ELSE /\ searchResults' = googleSearchResult(r)
               /\ IF Len(searchResults') = 0
                  THEN /\ pc' = "NoResults"
                       /\ UNCHANGED <<idx, synthLog, fetchCalls>>
                  ELSE ForLoop(searchResults', 1, <<>>)
  /\ UNCHANGED <<query, fetchLibrary, numResults, model, contents, summary,
                 browser, content, pending, alive, searchCalls, fetchLog,
                 lastFetch, lastResponse>>

\* the search request completes; main continues to the first fetch
googleSearch ==
  /\ pc = "Searching"
  /\ \E r \in SearchResponses :
       /\ searchResponse' = <<r>>
       /\ searchResults' = googleSearchResult(r)
       /\ IF Len(searchResults') = 0
          THEN /\ pc' = "NoResults"
               /\ UNCHANGED <<idx, synthLog, fetchCalls>>
          ELSE ForLoop(searchResults', 1, <<>>)
  /\ UNCHANGED <<query, fetchLibrary, numResults, model, contents, summary,
                 browser, content, pending, alive, searchCalls, fetchLog, lastFetch,
                 lastResponse>>

\* the page request of fetchPageContentWithCheerio completes
fetchPageContentWithCheerio ==
  /\ pc = "CheerioGet"
  /\ LET url == searchResults[idx].link IN
       \/ Return(ErrorFetching, TRUE, <<>>)               \* catch
       \/ /\ url # Undefined
          /\ \E c \in PageText(url) : Return(CheerioExcerpt(c), FALSE, <<c>>)
  /\ UNCHANGED <<query, fetchLibrary, numResults, model, searchResults,
                 summary, browser, content, pending, alive, searchResponse, searchCalls,
                 lastResponse>>

\* a fetchPageContentWithPuppeteer step fails inside try: the catch block
\* makes "Error fetching content." the pending return
Catch ==
  /\ pending' = <<[value |-> ErrorFetching, failed |-> TRUE]>>
  /\ UNCHANGED content

\* puppeteer.launch() completes
puppeteerLaunch ==
  /\ pc = "Launch"
  /\ \/ /\ browser' = idx
        /\ alive' = alive \cup {idx}
        /\ pc' = "NewPage"
        /\ content' = <<>>
        /\ pending' = <<>>
        /\ UNCHANGED <<idx, contents, fetchLog, lastFetch, synthLog, fetchCalls>>
     \/ /\ browser' = 0                 \* catch, then finally with no browser
        /\ content' = <<>>
        /\ pending' = <<>>
        /\ Return(ErrorFetching, TRUE, <<>>)
        /\ UNCHANGED alive
  /\ UNCHANGED <<query, fetchLibrary, numResults, model, searchResults,
                 summary, searchResponse, searchCalls, lastResponse>>

\* browser.newPage() completes
browserNewPage ==
  /\ pc = "NewPage"
  /\ \/ /\ pc' = "Goto"
        /\ UNCHANGED <<content, pending>>
     \/ /\ Catch
        /\ pc' = "Close"
  /\ UNCHANGED <<query, fetchLibrary, numResults, model, searchResults, idx,
                 contents, summary, browser, alive, searchResponse, searchCalls,
                 fetchLog, lastFetch, synthLog, fetchCalls, lastResponse>>

\* pageGoto in a function whose browser.close() is not in a finally block
pageGotoNoFinally ==
  /\ pc = "Goto"
  /\ \/ /\ searchResults[idx].link # Undefined
        /\ pc' = "Evaluate"
        /\ UNCHANGED <<content, pending, idx, contents, fetchLog, lastFetch,
                       synthLog, fetchCalls>>
     \/ /\ Catch
        /\ Return(ErrorFetching, TRUE, <<>>)
  /\ UNCHANGED <<query, fetchLibrary, numResults, model, searchResults,
                 summary, browser, alive, searchResponse, searchCalls,
                 lastResponse>>

\* page.goto(url) completes
pageGoto ==
  /\ pc = "Goto"
  /\ \/ /\ searchResults[idx].link # Undefined
        /\ pc' = "Evaluate"
        /\ UNCHANGED <<content, pending>>
     \/ /\ Catch
        /\ pc' = "Close"
  /\ UNCHANGED <<query, fetchLibrary, numResults, model, searchResults, idx,
                 contents, summary, browser, alive, searchResponse, searchCalls,
                 fetchLog, lastFetch, synthLog, fetchCalls, lastResponse>>

\* page.evaluate() completes; the return statement is evaluated
pageEvaluate ==
  /\ pc = "Evaluate"
  /\ \/ \E c \in PageText(searchResults[idx].link) :
          /\ content' = <<c>>
          /\ pending' = <<[value |-> PuppeteerExcerpt(c), failed |-> FALSE]>>
     \/ Catch
  /\ pc' = "Close"
  /\ UNCHANGED <<query, fetchLibrary, numResults, model, searchResults, idx,
                 contents, summary, browser, alive, searchResponse, searchCalls,
                 fetchLog, lastFetch, synthLog, fetchCalls, lastResponse>>

\* finally: browser.close() completes
browserClose ==
  /\ pc = "Close"
  /\ \/ /\ alive' = alive \ {browser}
        /\ Return(pending[1].value, pending[1].failed, content)
     \/ /\ alive' \in {alive, alive \ {browser}}   \* close() rejects: the
        /\ pc' = "Rejected"                        \* rejection leaves main
        /\ UNCHANGED <<idx, contents, fetchLog, lastFetch, synthLog, fetchCalls>>
  /\ UNCHANGED <<query, fetchLibrary, numResults, model, searchResults,
                 summary, browser, content, pending, searchResponse,
                 searchCalls, lastResponse>>

\* the request of summarizeWithOpenAI completes; main prints the summary
summarizeWithOpenAI ==
  /\ pc = "OpenAI"
  /\ \E r \in PostResponses(OpenAIPath) :
       /\ lastResponse' = <<r>>
       /\ summary' = <<summarizeWithOpenAIResult(r)>>
  /\ pc' = "Done"
  /\ UNCHANGED <<query, fetchLibrary, numResults, model, searchResults, idx,
                 contents, browser, content, pending, alive, searchResponse,
                 searchCalls, fetchLog, lastFetch, synthLog, fetchCalls>>

\* the request of summarizeWithGemini completes; main prints the summary
summarizeWithGemini ==
  /\ pc = "Gemini"
  /\ \E r \in PostResponses(GeminiPath) :
       /\ lastResponse' = <<r>>
       /\ summary' = <<summarizeWithGeminiResult(r)>>
  /\ pc' = "Done"
  /\ UNCHANGED <<query, fetchLibrary, numResults, model, searchResults, idx,
                 contents, browser, content, pending, alive, searchResponse,
                 searchCalls, fetchLog, lastFetch, synthLog, fetchCalls>>

Next ==
  \/ Startup
  \/ googleSearch
  \/ fetchPageContentWithCheerio
  \/ puppeteerLaunch
  \/ browserNewPage
  \/ pageGoto
  \/ pageEvaluate
  \/ browserClose
  \/ summarizeWithOpenAI
  \/ summarizeWithGemini

Spec == Init /\ [][Next]_vars

----------------------------------------------------------------------------
TypeOK ==
  /\ pc \in {"Start", "Searching", "CheerioGet", "Launch", "NewPage", "Goto",
             "Evaluate", "Close", "OpenAI", "Gemini"} \cup Terminal
  /\ idx \in 1..(Len(searchResults) + 1)
  /\ Len(contents) <= Len(searchResults)
  /\ Len(summary) <= 1
  /\ browser \in 0..Len(searchResults)
  /\ alive \subseteq 1..Len(searchResults)

----------------------------------------------------------------------------
(* Properties *)

Last(seq) == seq[Len(seq)]

IsText(c) == c.id \in Links

FetchEnvelope ==
  /\ \A i \in 1..Len(contents) :
       LET c == contents[i] IN
         /\ \/ c = NoMeaningfulContent
            \/ c = ErrorFetching
            \/ IsText(c)
         /\ StrLen(c) >= 1
         /\ StrLen(c) <= 2000
  /\ \A i \in 1..Len(pending) :
       StrLen(pending[i].value) >= 1 /\ StrLen(pending[i].value) <= 2000

\* all three kinds of value were returned in one run, the text cut to 2000
FetchEnvelopeWitness ==
  /\ pc = "Done"
  /\ \E i, j, k \in 1..Len(contents) :
       /\ IsText(contents[i]) /\ StrLen(contents[i]) = 2000
       /\ contents[j] = NoMeaningfulContent
       /\ contents[k] = ErrorFetching

\* r consists of the first characters of c
IsPrefixOf(r, c) ==
  /\ r.id = c.id
  /\ r.lead <= c.lead /\ r.core <= c.core /\ r.trail <= c.trail
  /\ r.lead < c.lead => r.core = 0 /\ r.trail = 0
  /\ r.core < c.core => r.trail = 0

\* r is exactly the first n characters of c (all of c when c is shorter)
FirstChars(c, n, r) ==
  /\ IsPrefixOf(r, c)
  /\ StrLen(r) = IF StrLen(c) < n THEN StrLen(c) ELSE n

\* C3 as stated: the threshold is on the length of the concatenated text.
\* A loaded page of more than 100 characters yields its first 2000
\* characters, a page of 100 characters or less yields the sentinel.
ThresholdOnLength ==
  lastFetch # <<>> =>
    LET c == lastFetch[1]
        r == Last(contents)
    IN  IF StrLen(c) > 100
        THEN FirstChars(c, 2000, r)
        ELSE r = NoMeaningfulContent

\* C3 amended: the threshold is on the length of the text without its leading
\* and trailing whitespace; what is returned is the first 2000 characters of
\* the text as extracted, leading whitespace included.
ThresholdOnTrimmedLength ==
  lastFetch # <<>> =>
    LET c == lastFetch[1]
        r == Last(contents)
    IN  IF c.core > 100
        THEN FirstChars(c, 2000, r)
        ELSE r = NoMeaningfulContent

\* a page longer than 100 characters whose trimmed text is not
ThresholdWitness ==
  /\ lastFetch # <<>>
  /\ StrLen(lastFetch[1]) > 100
  /\ lastFetch[1].core <= 100
  /\ Last(contents) = NoMeaningfulContent

\* the response lacks a field the provider's function reads, or the request
\* failed
Malformed(r, path) == r.throws \/ r.depth < path

\* C4: synthesis failure containment.  With either provider a failed request
\* or a response that lacks an expected field gives exactly
\* "Error generating summary.", and main goes on to its end.
SynthesisContained ==
  lastResponse # <<>> =>
    /\ pc = "Done"
    /\ Len(summary) = 1
    /\ Malformed(lastResponse[1],
                 IF synthLog[1].provider = "Gemini" THEN 7 ELSE 5)
         => summary[1] = ErrorGenerating

\* Gemini answered with a candidate whose content has no parts
SynthesisContainedWitness ==
  /\ pc = "Done"
  /\ synthLog[1].provider = "Gemini"
  /\ ~lastResponse[1].throws
  /\ lastResponse[1].depth = 4
  /\ summary = <<ErrorGenerating>>

\* C5: synthesize returns a non-empty string for every response, a
\* completion of only whitespace included.
SynthesisNonEmpty ==
  \A i \in 1..Len(summary) : StrLen(summary[i]) > 0

\* C6: NoResults short-circuit.  When search yields the empty sequence the
\* run ends in NoResults having started no fetch and issued no synthesis
\* request.
NoResultsShortCircuit ==
  /\ (searchResponse # <<>> /\ Len(searchResults) = 0) =>
       /\ pc = "NoResults"
       /\ fetchCalls = 0 /\ fetchLog = <<>> /\ contents = <<>>
       /\ synthLog = <<>> /\ summary = <<>>
       /\ alive = {}
  /\ pc = "NoResults" => searchResponse # <<>> /\ Len(searchResults) = 0

\* Scenario 1: the backend answered with an empty item list
NoResultsWitness ==
  /\ pc = "NoResults"
  /\ ~searchResponse[1].throws
  /\ searchResponse[1].depth = 2
  /\ searchResponse[1].items = <<>>

\* C7: search issues one request per run, and any failure of it, a response
\* without an item list included, gives the empty sequence and the run ends
\* in NoResults.
SearchDegrades ==
  /\ searchCalls <= 1
  /\ pc \notin {"Start", "Exit1"} => searchCalls = 1
  /\ (searchResponse # <<>> /\
        (searchResponse[1].throws \/ searchResponse[1].depth < 2)) =>
       searchResults = <<>> /\ pc = "NoResults"

\* the search request failed in transport
SearchDegradesWitness ==
  /\ pc = "NoResults"
  /\ searchResponse[1].throws
  /\ searchCalls = 1

LinksOf(seq) == [i \in 1..Len(seq) |-> seq[i].link]

\* a is b with some elements left out
RECURSIVE IsOrderedSelection(_, _)
IsOrderedSelection(a, b) ==
  IF a = <<>> THEN TRUE
  ELSE IF b = <<>> THEN FALSE
  ELSE IF a[1] = b[1] THEN IsOrderedSelection(Tail(a), Tail(b))
  ELSE IsOrderedSelection(a, Tail(b))

\* C8: for a non-empty query and a limit L >= 1, search returns at most L
\* locators, in the relative order of the backend's item list.
SearchBounded ==
  (searchResponse # <<>> /\ query # "" /\ numResults >= 1) =>
    /\ Len(searchResults) <= numResults
    /\ IsOrderedSelection(LinksOf(searchResults),
                          LinksOf(searchResponse[1].items))

\* the backend answered with more items than the limit
SearchBoundedWitness ==
  /\ searchResponse # <<>>
  /\ Len(searchResponse[1].items) = 3
  /\ searchResponse[1].items[1].link # searchResponse[1].items[2].link
  /\ numResults = 2
  /\ Len(searchResults) = 2

\* C9: no locator returned by search has a missing link, and no fetch is
\* invoked with an absent URL.
NoMissingLink ==
  /\ \A i \in 1..Len(searchResults) : searchResults[i].link # Undefined
  /\ \A i \in 1..Len(fetchLog) : fetchLog[i].url # Undefined

\* C10: browser teardown.  The browser a puppeteer fetch launched is closed
\* when that fetch has returned, whatever it returned.
BrowserClosedOnReturn ==
  \A i \in 1..Len(fetchLog) : i \notin alive

\* a fetch that launched a browser and then failed has returned
BrowserClosedWitness ==
  /\ fetchLibrary = "puppeteer"
  /\ fetchLog # <<>>
  /\ browser = Len(fetchLog)
  /\ fetchLog[browser].failed
  /\ alive = {}

\* C11: no exception crosses a stage boundary.  Whatever external calls
\* fail (search request, page request, browser launch, navigation, browser
\* close, synthesis request), no stage function ends by throwing into main,
\* so no failure of an external call ends the run by a rejection.
NoExceptionEscapes == pc # "Rejected"

\* C12: an empty query ends the program before any search, fetch or synthesis
\* call, and it is the only condition under which the program ends on a
\* failure exit path.
EmptyQueryOnlyFailure ==
  /\ query = "" =>
       /\ pc \in {"Start", "Exit1"}
       /\ searchCalls = 0 /\ fetchCalls = 0 /\ synthLog = <<>>
  /\ pc \in {"Exit1", "Rejected", "ModelTypeError"} => query = ""

FetchStates == {"CheerioGet", "Launch", "NewPage", "Goto", "Evaluate", "Close"}

\* C14: orchestrator progress.  A run of a non-empty query ends in Done or
\* NoResults; a run whose search returned at least one locator processes all
\* locators and ends in Done after exactly one synthesis request over the
\* full excerpt list, whatever the configuration.
OrchestratorProgress ==
  (query # "" /\ pc \in Terminal) =>
    /\ pc \in {"Done", "NoResults"}
    /\ Len(searchResults) >= 1 =>
         /\ pc = "Done"
         /\ Len(contents) = Len(searchResults)
         /\ Len(synthLog) = 1
         /\ synthLog[1].contents = contents

\* external operations that were started and have neither returned nor thrown
SearchInFlight == IF pc = "Searching" THEN searchCalls - Len(searchResponse) ELSE 0
FetchInFlight  == IF pc \in {"Rejected"} THEN 0 ELSE fetchCalls - Len(fetchLog)
SynthInFlight  == Len(synthLog) - Len(lastResponse)

\* C15: strictly sequential execution.  At most one external operation is in
\* flight; fetch i+1 starts only when fetch i has returned and its excerpt
\* was appended, fetches start in locator order, and the synthesis request
\* starts only when the last fetch has returned.
StrictlySequential ==
  /\ SearchInFlight + FetchInFlight + SynthInFlight <= 1
  /\ SearchInFlight >= 0 /\ FetchInFlight >= 0 /\ SynthInFlight >= 0
  /\ pc = "Searching" => SearchInFlight = 1
  /\ pc \in FetchStates =>
       /\ FetchInFlight = 1
       /\ fetchCalls = idx
       /\ Len(contents) = idx - 1
       /\ Len(fetchLog) = idx - 1
  /\ pc \in {"OpenAI", "Gemini"} => SynthInFlight = 1
  /\ fetchCalls >= 1 => Len(searchResponse) = 1
  /\ \A i \in 1..Len(fetchLog) : fetchLog[i].url = searchResults[i].link
  /\ synthLog # <<>> =>
       /\ fetchCalls = Len(searchResults)
       /\ Len(fetchLog) = Len(searchResults)
       /\ Len(contents) = Len(searchResults)

\* the third fetch is in flight after two fetches returned
StrictlySequentialWitness ==
  /\ pc \in FetchStates
  /\ idx = 3
  /\ fetchCalls = 3
  /\ Len(contents) = 2

\* C16: the request either provider sends embeds the query, all excerpts in
\* locator order joined by a blank line, and the instruction to say
\* "No results." when nothing useful can be produced.
RequestEmbedsInstruction ==
  \A i \in 1..Len(synthLog) :
    LET user == synthLog[i].request.user IN
      /\ user.query.text = query
      /\ user.sources.parts = contents
      /\ user.sources.sep = "\n\n"
      /\ user.query.sayNoResults

\* C17: provider selection with lenient fallback.  A run that has processed
\* all its locators invokes exactly one provider: Gemini for the name
\* 'gemini', OpenAI for every other name, and no name ends the run early.
LenientFallback ==
  /\ Len(synthLog) <= 1
  /\ \A i \in 1..Len(synthLog) :
       synthLog[i].provider = IF model = "gemini" THEN "Gemini" ELSE "OpenAI"
  /\ ( /\ Len(searchResults) >= 1
       /\ Len(contents) = Len(searchResults)
       /\ pc \notin FetchStates )
     => Len(synthLog) = 1
  /\ pc # "ModelTypeError"

\* C18: with a fetch strategy that is neither 'puppeteer' nor 'cheerio' and at
\* least one locator, the run stops at the first locator with no page fetch,
\* no excerpt and no synthesis request; the name is tested only in the loop,
\* after the search request, and never when search returns no locator.
InvalidLibraryStops ==
  LET invalid == fetchLibrary \notin {"puppeteer", "cheerio"} IN
  /\ (invalid /\ searchResponse # <<>> /\ Len(searchResults) >= 1) =>
       /\ pc = "InvalidLibrary"
       /\ idx = 1
       /\ fetchCalls = 0 /\ fetchLog = <<>> /\ contents = <<>>
       /\ synthLog = <<>> /\ summary = <<>>
  /\ pc = "InvalidLibrary" =>
       /\ invalid
       /\ searchCalls = 1 /\ searchResponse # <<>>
       /\ Len(searchResults) >= 1
  /\ (invalid /\ query # "" /\ searchResponse = <<>>) => pc \in {"Start", "Searching"}
  /\ (invalid /\ searchResponse # <<>> /\ Len(searchResults) = 0) =>
       pc = "NoResults"

\* the run stopped at the first of three locators
InvalidLibraryWitness ==
  /\ pc = "InvalidLibrary"
  /\ Len(searchResults) = 3
  /\ fetchCalls = 0
  /\ synthLog = <<>>

\* C19: with puppeteer at most one browser is alive, a browser is launched
\* only when the previous fetch's browser was closed, and no browser is alive
\* when the synthesis request is issued or when the run has ended.
OneBrowserAtATime ==
  /\ Cardinality(alive) <= 1
  /\ alive \subseteq {browser}
  /\ pc = "Launch" => alive = {}
  /\ synthLog # <<>> => alive = {}
  /\ pc \in Terminal => alive = {}

====
